---------------------------- MODULE Spec2Model ----------------------------
(***************************************************************************)
(* Penalty shoot-out server (src/server.js): the in-memory match store,    *)
(* the quick-play queue, the per-socket metadata and the Socket.IO event   *)
(* handlers, each handler one atomic action (Node runs a handler to        *)
(* completion before the next event).                                      *)
(*                                                                         *)
(* Match ids are the positions of the matches in `matches` (uid() draws    *)
(* fresh random strings; Object.values keeps insertion order).  Numbers    *)
(* with a fraction are scaled: power01 in hundredths, angles in degrees,   *)
(* products in hundredths of a degree.  The hello handler only stores      *)
(* uid/nick, which no other handler reads, and is left out.                *)
(*                                                                         *)
(* src/unnamed/part_000 is a later copy of the same server.  Its handlers  *)
(* differ from src/server.js in two places that no state here depends on:  *)
(* join_queue reads socketsMeta.get(sA) || {} (the queue never holds a     *)
(* disconnected socket, QueueConnected), and resolveShot coerces a NaN     *)
(* power to 0 before the draws (Outcomes follows src/server.js).           *)
(***************************************************************************)
EXTENDS Integers, Sequences, FiniteSets, TLC

VARIABLES
    matches,      \* Seq of match records; matches[id] is the match with that id
    queue,        \* Seq of socket ids waiting for quick play
    socketsMeta,  \* function: connected socket id -> [matchId, role]
    seen,         \* socket ids that have connected so far (ids are never reused)
    shots,        \* history: shots[id] = number of shots resolved in match id
    last,         \* history: the event the last handler served
    out           \* the messages the last handler emitted, in order

vars == <<matches, queue, socketsMeta, seen, shots, last, out>>

\* ---------------------------------------------------------------- bounds
MaxMatches == 2      \* matches ever created
MaxRound == 6        \* SpecPlay: kick/dive are explored while round <= MaxRound

\* ------------------------------------------------------------- constants
maxRounds == 5
NoMatch == 0         \* meta.matchId = null
NaN == 100000        \* Number(x) of a non-numeric payload field
NoSock == "null"     \* players.A / players.B = null
Null == {}           \* pending.kick / pending.dive = null; {v} holds v

SocketIds == <<"c1", "c2", "c3", "c4">>    \* in order of connection
Sockets == {SocketIds[i] : i \in DOMAIN SocketIds}
LobbySockets == {"c1", "c2", "c3"}
Codes == {"K1", "K2"}                      \* values inviteCode() may return
Slots == {"A", "B"}

\* raw payloads of kick {angleDeg, power01} and dive {dir}
KickInputs == { [angleDeg |-> -90, power01 |-> 50],
                [angleDeg |-> 10,  power01 |-> 150],
                [angleDeg |-> NaN, power01 |-> NaN] }
DiveInputs == {"left", "right", "up"}
LobbyKick == [angleDeg |-> 10, power01 |-> 150]

\* ---------------------------------------------------------------- helpers
other(role) == IF role = "A" THEN "B" ELSE "A"

Min(a, b) == IF a < b THEN a ELSE b
Max(a, b) == IF a > b THEN a ELSE b

\* Math.max(lo, Math.min(hi, x)); NaN propagates through Math.min/Math.max
Clamp(lo, hi, x) == IF x = NaN THEN NaN ELSE Max(lo, Min(hi, x))

\* a message of the broadcast layer; unused fields hold "-" / 0
Msg(to, ev, mid) ==
    [to |-> to, ev |-> ev, mid |-> mid, youAre |-> "-", role |-> "-",
     round |-> 0, score |-> [A |-> 0, B |-> 0], turn |-> "-",
     result |-> "-", zone |-> "-", nextTurn |-> "-", winner |-> "-",
     reason |-> "-", code |-> "-", message |-> "-"]

\* for (const s of m.spectators) ...: one message per spectator
RECURSIVE SetToSeq(_)
SetToSeq(S) ==
    IF S = {} THEN <<>>
    ELSE LET x == CHOOSE y \in S : TRUE IN <<x>> \o SetToSeq(S \ {x})

\* function createMatch(type): the new record (the caller appends it)
createMatch(type, code) ==
    [status |-> "waiting",
     type |-> type,
     code |-> IF type = "private" THEN code ELSE "null",
     players |-> [A |-> NoSock, B |-> NoSock],
     spectators |-> {},
     round |-> 1,
     maxRounds |-> maxRounds,
     score |-> [A |-> 0, B |-> 0],
     turn |-> "A",
     pending |-> [kick |-> Null, dive |-> Null]]

\* function pushTurn(m): the messages it emits
pushTurn(m, mid) ==
    LET kickerId == m.players[m.turn]
        keeperId == m.players[other(m.turn)]
        spec == SetToSeq(m.spectators)
    IN  << [Msg(kickerId, "your_turn", mid) EXCEPT !.role = "kicker",
               !.round = m.round, !.youAre = m.turn, !.score = m.score],
           [Msg(keeperId, "your_turn", mid) EXCEPT !.role = "keeper",
               !.round = m.round, !.youAre = other(m.turn), !.score = m.score] >>
        \o [i \in 1..Len(spec) |->
              [Msg(spec[i], "score_update", mid) EXCEPT !.score = m.score,
                  !.round = m.round, !.turn = m.turn]]

\* startIfReady without its pushTurn(m) call
startIfReady_NoTurn(m, mid) ==
    IF m.players.A # NoSock /\ m.players.B # NoSock /\ m.status = "waiting"
    THEN LET m1 == [m EXCEPT !.status = "playing"]
         IN  [m |-> m1,
              out |-> << [Msg(m1.players.A, "match_start", mid) EXCEPT !.youAre = "A"],
                         [Msg(m1.players.B, "match_start", mid) EXCEPT !.youAre = "B"] >>]
    ELSE [m |-> m, out |-> <<>>]

\* function startIfReady(m): the match after it and the messages it emits
startIfReady(m, mid) ==
    IF m.players.A # NoSock /\ m.players.B # NoSock /\ m.status = "waiting"
    THEN LET m1 == [m EXCEPT !.status = "playing"]
         IN  [m |-> m1,
              out |-> << [Msg(m1.players.A, "match_start", mid) EXCEPT !.youAre = "A"],
                         [Msg(m1.players.B, "match_start", mid) EXCEPT !.youAre = "B"] >>
                      \o pushTurn(m1, mid)]
    ELSE [m |-> m, out |-> <<>>]

\* finishMatch followed by a turn notification
finishMatch_AndTurn(m, mid) ==
    LET m1 == [m EXCEPT !.status = "finished"]
        winner == IF m1.score.A > m1.score.B THEN "A"
                  ELSE IF m1.score.B > m1.score.A THEN "B" ELSE "draw"
    IN  [m |-> m1,
         out |-> << [Msg(m1.players.A, "match_over", mid) EXCEPT !.winner = winner,
                        !.score = m1.score],
                    [Msg(m1.players.B, "match_over", mid) EXCEPT !.winner = winner,
                        !.score = m1.score] >>
                 \o pushTurn(m1, mid)]

\* function finishMatch(m)
finishMatch(m, mid) ==
    LET m1 == [m EXCEPT !.status = "finished"]
        winner == IF m1.score.A > m1.score.B THEN "A"
                  ELSE IF m1.score.B > m1.score.A THEN "B" ELSE "draw"
        spec == SetToSeq(m1.spectators)
    IN  [m |-> m1,
         out |-> << [Msg(m1.players.A, "match_over", mid) EXCEPT !.winner = winner,
                        !.score = m1.score],
                    [Msg(m1.players.B, "match_over", mid) EXCEPT !.winner = winner,
                        !.score = m1.score] >>
                 \o [i \in 1..Len(spec) |->
                       [Msg(spec[i], "match_over", mid) EXCEPT !.winner = winner,
                           !.score = m1.score]]]

\* ------------------------------------------------------------------ Init
Init ==
    /\ matches = <<>>
    /\ queue = <<>>
    /\ socketsMeta = [s \in {} |-> [matchId |-> NoMatch, role |-> "null"]]
    /\ seen = {}
    /\ shots = <<>>
    /\ last = [op |-> "init", sock |-> NoSock]
    /\ out = <<>>

\* io.on('connection'): socket ids are fresh, named in order of connection
Connect(s) ==
    /\ Cardinality(seen) < Len(SocketIds)
    /\ s = SocketIds[Cardinality(seen) + 1]
    /\ seen' = seen \cup {s}
    /\ socketsMeta' = [x \in DOMAIN socketsMeta \cup {s} |->
                          IF x = s THEN [matchId |-> NoMatch, role |-> "null"]
                          ELSE socketsMeta[x]]
    /\ last' = [op |-> "connection", sock |-> s]
    /\ out' = <<>>
    /\ UNCHANGED <<matches, queue, shots>>


\* ------------------------------------------------------------ join_queue
\* while (queue.length >= 2) { shift two, createMatch('public'), fill, start }
\* const sA = queue.shift(); const sB = queue.shift()
Pairing_Swapped(q) == [A |-> q[2], B |-> q[1]]

Pairing(q) == [A |-> q[1], B |-> q[2]]

RECURSIVE PairLoop(_, _, _, _)
PairLoop(q, ms, meta, o) ==
    IF Len(q) >= 2
    THEN LET sA == Pairing(q).A
             sB == Pairing(q).B
             mid == Len(ms) + 1
             m0 == [createMatch("public", "null") EXCEPT !.players.A = sA,
                                                      !.players.B = sB]
             \* socketsMeta.get(sA).matchId = m.id: sA, sB are connected sockets
             \* here (QueueConnected), so the lookups never yield undefined
             metaA == [meta EXCEPT ![sA] = [matchId |-> mid, role |-> "A"]]
             metaB == [metaA EXCEPT ![sB] = [matchId |-> mid, role |-> "B"]]
             st == startIfReady(m0, mid)
         IN  PairLoop(SubSeq(q, 3, Len(q)), Append(ms, st.m), metaB, o \o st.out)
    ELSE [queue |-> q, matches |-> ms, meta |-> meta, out |-> o]

JoinQueue(s) ==
    /\ s \in DOMAIN socketsMeta
    /\ LET r == PairLoop(Append(queue, s), matches, socketsMeta, <<>>)
       IN  /\ queue' = r.queue
           /\ matches' = r.matches
           /\ socketsMeta' = r.meta
           /\ out' = r.out
           /\ shots' = shots \o [i \in 1..(Len(r.matches) - Len(matches)) |-> 0]
    /\ last' = [op |-> "join_queue", sock |-> s]
    /\ UNCHANGED seen

\* -------------------------------------------------------- create_private
CreatePrivate(s, code) ==
    /\ s \in DOMAIN socketsMeta
    /\ LET mid == Len(matches) + 1
           m == [createMatch("private", code) EXCEPT !.players.A = s]
       IN  /\ matches' = Append(matches, m)
           /\ socketsMeta' = [socketsMeta EXCEPT ![s] = [matchId |-> mid, role |-> "A"]]
           /\ out' = << [Msg(s, "private_created", mid) EXCEPT !.code = m.code] >>
    /\ shots' = Append(shots, 0)
    /\ last' = [op |-> "create_private", sock |-> s]
    /\ UNCHANGED <<queue, seen>>

\* ---------------------------------------------------------- join_by_code
\* find() without the test x.status === 'waiting'
FindByCode_AnyStatus(ms, code) ==
    LET hits == {i \in DOMAIN ms : ms[i].code = code}
    IN  IF hits = {} THEN NoMatch
        ELSE CHOOSE i \in hits : \A j \in hits : i <= j

\* Object.values(matches).find(x => x.code === code && x.status === 'waiting')
FindByCode(ms, code) ==
    LET hits == {i \in DOMAIN ms : ms[i].code = code /\ ms[i].status = "waiting"}
    IN  IF hits = {} THEN NoMatch
        ELSE CHOOSE i \in hits : \A j \in hits : i <= j

JoinByCode(s, code) ==
    /\ s \in DOMAIN socketsMeta
    /\ LET mid == FindByCode(matches, code) IN
       IF mid = NoMatch
       THEN /\ out' = << [Msg(s, "error_msg", NoMatch) EXCEPT !.message = "bad code"] >>
            /\ UNCHANGED <<matches, socketsMeta>>
       ELSE IF matches[mid].players.B # NoSock
       THEN /\ out' = << [Msg(s, "error_msg", NoMatch) EXCEPT !.message = "room full"] >>
            /\ UNCHANGED <<matches, socketsMeta>>
       ELSE LET st == startIfReady([matches[mid] EXCEPT !.players.B = s], mid)
            IN  /\ matches' = [matches EXCEPT ![mid] = st.m]
                /\ socketsMeta' = [socketsMeta EXCEPT
                                      ![s] = [matchId |-> mid, role |-> "B"]]
                /\ out' = st.out
    /\ last' = [op |-> "join_by_code", sock |-> s]
    /\ UNCHANGED <<queue, seen, shots>>

\* --------------------------------------------------------- spectate_join
SpectateJoin(s, matchId) ==
    /\ s \in DOMAIN socketsMeta
    /\ IF matchId \notin DOMAIN matches \/ matches[matchId].status = "finished"
       THEN /\ out' = << [Msg(s, "error_msg", NoMatch) EXCEPT
                              !.message = "match unavailable"] >>
            /\ UNCHANGED <<matches, socketsMeta>>
       ELSE LET m == matches[matchId]
            IN  /\ matches' = [matches EXCEPT
                                  ![matchId].spectators = m.spectators \cup {s}]
                /\ socketsMeta' = [socketsMeta EXCEPT
                                      ![s] = [matchId |-> matchId, role |-> "spec"]]
                /\ out' = << [Msg(s, "score_update", matchId) EXCEPT
                                !.score = m.score, !.round = m.round,
                                !.turn = m.turn] >>
    /\ last' = [op |-> "spectate_join", sock |-> s]
    /\ UNCHANGED <<queue, seen, shots>>

\* ------------------------------------------------------------ resolveShot
\* zones actualAngle = angle + (Math.random()*2 - 1) * spread can fall in,
\* Math.random() in [0, 1); angle in degrees, power in hundredths
Zones(angle, power) ==
    IF power = NaN THEN {"center"}        \* NaN < -15 and NaN > 15 are false
    ELSE LET spread == 6 * (20 + power)             \* hundredths of a degree
             lo == angle * 100 - spread             \* attained
             hi == angle * 100 + spread             \* approached, not attained
         IN  {z \in {"left"} : lo < -1500}
             \cup {z \in {"right"} : hi > 1500}
             \cup {z \in {"center"} : lo <= 1500 /\ hi > -1500}

\* the (result, zone) pairs the random draws of resolveShot can produce
Outcomes(kick, dive) ==
    LET angle == Clamp(-60, 60, kick.angleDeg)
        power == Clamp(0, 100, kick.power01)
        canMiss == power # NaN /\ Max(0, power - 90) * 2 > 0
    IN  {[result |-> r, zone |-> z] : r \in {"goal", "save", "miss"},
                                      z \in Zones(angle, power)}
        \ {o \in [result : {"goal", "save", "miss"}, zone : {"left", "center", "right"}] :
              \/ o.result = "miss" /\ ~canMiss
              \/ o.result = "save" /\ (dive.dir # o.zone \/ power = NaN)}

\* if (result === 'goal') m.score[shooter] += 1
ScoreAfter_AnyResult(score, shooter, result) ==
    [score EXCEPT ![shooter] = @ + 1]

ScoreAfter(score, shooter, result) ==
    IF result = "goal" THEN [score EXCEPT ![shooter] = @ + 1] ELSE score

\* if (shooter === 'B') m.round += 1; m.turn = other(m.turn)
Advance_RoundOnA(m, shooter) ==
    [m EXCEPT !.round = IF shooter = "A" THEN @ + 1 ELSE @,
              !.turn = other(m.turn)]

Advance(m, shooter) ==
    [m EXCEPT !.round = IF shooter = "B" THEN @ + 1 ELSE @,
              !.turn = other(m.turn)]

\* the code's count of the shots taken, from round and turn
TotalShots(m) == (m.round - 1) * 2 + (IF m.turn = "A" THEN 0 ELSE 1)

\* the "fin?" block of resolveShot: TRUE when it calls finishMatch
ShootoutOver_OffByOne(m) ==
    /\ TotalShots(m) > m.maxRounds * 2
    /\ m.score.A # m.score.B

ShootoutOver_OnlyAtMax(m) ==
    /\ TotalShots(m) = m.maxRounds * 2
    /\ m.score.A # m.score.B

\* the ending test with totalShots >= max in place of totalShots >= maxShots
ShootoutOver_Early(m) ==
    LET max == m.maxRounds
        totalShots == TotalShots(m)
    IN  /\ totalShots >= max
        /\ m.score.A # m.score.B

ShootoutOver(m) ==
    LET max == m.maxRounds
        totalShots == TotalShots(m)
        maxShots == max * 2
    IN  /\ totalShots >= maxShots
        /\ \/ m.score.A # m.score.B
           \/ /\ m.round > max
              /\ m.turn = "A"
              /\ m.score.A # m.score.B

\* function resolveShot(m) with the random draws giving outcome o
resolveShot(m, mid, o) ==
    LET m1 == [m EXCEPT !.pending.kick = Null, !.pending.dive = Null]
        shooter == m1.turn
        keeper == other(m1.turn)
        m2 == [m1 EXCEPT !.score = ScoreAfter(m1.score, shooter, o.result)]
        spec == SetToSeq(m2.spectators)
        res(to) == [Msg(to, "shot_result", mid) EXCEPT !.result = o.result,
                       !.zone = o.zone, !.score = m2.score, !.round = m2.round,
                       !.nextTurn = keeper]
        results == <<res(m2.players.A), res(m2.players.B)>>
                   \o [i \in 1..Len(spec) |-> res(spec[i])]
        m3 == Advance(m2, shooter)
    IN  IF ShootoutOver(m3)
        THEN LET f == finishMatch(m3, mid) IN [m |-> f.m, out |-> results \o f.out]
        ELSE [m |-> m3, out |-> results \o pushTurn(m3, mid)]

\* ------------------------------------------------------------------ kick
\* m.status === 'playing' of the kick and dive handlers
IsPlaying_Started(m) == m.status # "waiting"

IsPlaying(m) == m.status = "playing"

\* m.players[m.turn] === socket.id
IsKicker_AnyPlayer(m, s) == s \in {m.players.A, m.players.B}

IsKicker(m, s) == m.players[m.turn] = s

\* m.players[other(m.turn)] === socket.id
IsKeeper_AnyPlayer(m, s) == s \in {m.players.A, m.players.B}

IsKeeper(m, s) == m.players[other(m.turn)] = s

Kick(s, in) ==
    /\ s \in DOMAIN socketsMeta
    /\ last' = [op |-> "kick", sock |-> s]
    /\ UNCHANGED <<queue, socketsMeta, seen>>
    /\ LET mid == socketsMeta[s].matchId IN
       IF \/ mid \notin DOMAIN matches
          \/ ~IsPlaying(matches[mid])
          \/ ~IsKicker(matches[mid], s)
       THEN /\ out' = <<>>
            /\ UNCHANGED <<matches, shots>>
       ELSE LET k == [angleDeg |-> IF in.angleDeg = NaN THEN 0 ELSE in.angleDeg,
                      power01 |-> Clamp(0, 100, in.power01)]
                m1 == [matches[mid] EXCEPT !.pending.kick = {k}]
            IN  IF m1.pending.kick # Null /\ m1.pending.dive # Null
                THEN \E d \in m1.pending.dive : \E o \in Outcomes(k, d) :
                        LET r == resolveShot(m1, mid, o)
                        IN  /\ matches' = [matches EXCEPT ![mid] = r.m]
                            /\ out' = r.out
                            /\ shots' = [shots EXCEPT ![mid] = @ + 1]
                ELSE /\ matches' = [matches EXCEPT ![mid] = m1]
                     /\ out' = <<>>
                     /\ UNCHANGED shots

\* ------------------------------------------------------------------ dive
Dive(s, dir) ==
    /\ s \in DOMAIN socketsMeta
    /\ last' = [op |-> "dive", sock |-> s]
    /\ UNCHANGED <<queue, socketsMeta, seen>>
    /\ LET mid == socketsMeta[s].matchId IN
       IF \/ mid \notin DOMAIN matches
          \/ ~IsPlaying(matches[mid])
          \/ ~IsKeeper(matches[mid], s)
       THEN /\ out' = <<>>
            /\ UNCHANGED <<matches, shots>>
       ELSE LET normalized == IF dir \in {"left", "center", "right"}
                              THEN dir ELSE "center"
                d == [dir |-> normalized]
                m1 == [matches[mid] EXCEPT !.pending.dive = {d}]
            IN  IF m1.pending.kick # Null /\ m1.pending.dive # Null
                THEN \E k \in m1.pending.kick : \E o \in Outcomes(k, d) :
                        LET r == resolveShot(m1, mid, o)
                        IN  /\ matches' = [matches EXCEPT ![mid] = r.m]
                            /\ out' = r.out
                            /\ shots' = [shots EXCEPT ![mid] = @ + 1]
                ELSE /\ matches' = [matches EXCEPT ![mid] = m1]
                     /\ out' = <<>>
                     /\ UNCHANGED shots

\* ------------------------------------------------------------ disconnect
\* queue.indexOf(id) / queue.splice(idx, 1): drop the first occurrence
RemoveFirst(q, s) ==
    LET idx == {i \in DOMAIN q : q[i] = s}
    IN  IF idx = {} THEN q
        ELSE LET i == CHOOSE a \in idx : \A b \in idx : a <= b
             IN  SubSeq(q, 1, i - 1) \o SubSeq(q, i + 1, Len(q))

\* m.status = 'finished' of the disconnect handler
DisconnectedStatus_Waiting == "waiting"

DisconnectedStatus == "finished"

\* the match_over messages of the disconnect handler
DisconnectOver(m, mid, s) ==
    LET winner == IF m.players.A = s THEN "B" ELSE "A"
        spec == SetToSeq(m.spectators)
        over(to) == [Msg(to, "match_over", mid) EXCEPT !.winner = winner,
                        !.score = m.score, !.reason = "opponent_disconnected"]
    IN  <<over(m.players.A), over(m.players.B)>>
        \o [i \in 1..Len(spec) |-> over(spec[i])]

Disconnect(s) ==
    /\ s \in DOMAIN socketsMeta
    /\ socketsMeta' = [x \in DOMAIN socketsMeta \ {s} |-> socketsMeta[x]]
    /\ queue' = RemoveFirst(queue, s)
    /\ LET mid == socketsMeta[s].matchId IN
       IF mid \in DOMAIN matches /\ matches[mid].status # "finished"
       THEN /\ matches' = [matches EXCEPT ![mid].status = DisconnectedStatus]
            /\ out' = DisconnectOver(matches'[mid], mid, s)
       ELSE /\ out' = <<>>
            /\ UNCHANGED matches
    /\ last' = [op |-> "disconnect", sock |-> s]
    /\ UNCHANGED <<seen, shots>>

\* ------------------------------------------------------- specifications
\* the match a kick or dive of socket s is looked up in (0 when it has none)
MatchOf(s) ==
    IF s \in DOMAIN socketsMeta /\ socketsMeta[s].matchId \in DOMAIN matches
    THEN socketsMeta[s].matchId ELSE NoMatch

\* Spec, the lobby: three connections and MaxMatches matches.  c1 and c2 queue
\* and play, c1 creates private matches, c2 joins them by code, c3 spectates;
\* kicks and dives are explored up to the first resolved shot of match 1.
LobbyPlay(s) == MatchOf(s) # NoMatch => MatchOf(s) = 1 /\ shots[1] = 0

Next ==
    \/ \E s \in LobbySockets : Connect(s)
    \/ \E s \in {"c1", "c2"} : Len(matches) < MaxMatches /\ JoinQueue(s)
    \/ \E s \in {"c1"}, code \in Codes :
          Len(matches) < MaxMatches /\ CreatePrivate(s, code)
    \/ \E s \in {"c2"}, code \in {"K1", "ZZ"} : JoinByCode(s, code)
    \/ \E s \in {"c3"}, id \in 0..MaxMatches : SpectateJoin(s, id)
    \/ \E s \in {"c1", "c2"} : LobbyPlay(s) /\ Kick(s, LobbyKick)
    \/ \E s \in {"c1", "c2"} : LobbyPlay(s) /\ Dive(s, "up")
    \/ \E s \in LobbySockets : Disconnect(s)

Spec == Init /\ [][Next]_vars

\* SpecPlay, one public match played to the end: c1 and c2 queue and play,
\* c3 spectates; kicks and dives are explored while round <= MaxRound, and
\* disconnects until one of them has ended the match (after a shoot-out that
\* resolveShot ended, disconnects go on).
NoneAbandoned ==
    \A i \in DOMAIN matches :
        matches[i].status = "finished" => ShootoutOver(matches[i])
PlayOn(s) == MatchOf(s) # NoMatch => matches[MatchOf(s)].round <= MaxRound

NextPlay ==
    \/ \E s \in LobbySockets : Connect(s)
    \/ \E s \in {"c1", "c2"} : matches = <<>> /\ JoinQueue(s)
    \/ \E s \in {"c3"} : SpectateJoin(s, 1)
    \/ \E s \in {"c1", "c2"}, in \in KickInputs : PlayOn(s) /\ Kick(s, in)
    \/ \E s \in {"c1", "c2"}, dir \in DiveInputs : PlayOn(s) /\ Dive(s, dir)
    \/ \E s \in LobbySockets : NoneAbandoned /\ Disconnect(s)

SpecPlay == Init /\ [][NextPlay]_vars

\* SpecQueue, quick play alone: four connections queue and disconnect.
NextQueue ==
    \/ \E s \in Sockets : Connect(s)
    \/ \E s \in Sockets : Len(matches) < MaxMatches /\ JoinQueue(s)
    \/ \E s \in Sockets : Disconnect(s)

SpecQueue == Init /\ [][NextQueue]_vars

\* every queued socket id is a connected socket and the queue holds at most one
QueueConnected ==
    /\ Len(queue) <= 1
    /\ \A i \in DOMAIN queue : queue[i] \in DOMAIN socketsMeta

\* ---------------------------------------------------------------- claims
Rank(status) == IF status = "waiting" THEN 0 ELSE IF status = "playing" THEN 1 ELSE 2

\* socket s holds slot A or slot B of match i
Holds(s, i) == matches[i].players.A = s \/ matches[i].players.B = s

\* the step is the disconnect handler of socket s
Disconnects(s) == s \in DOMAIN socketsMeta /\ s \notin DOMAIN socketsMeta'

\* the messages of event ev about match i among the messages o
Emitted(o, ev, i) == {o[k] : k \in {j \in DOMAIN o : o[j].ev = ev /\ o[j].mid = i}}

\* C1: a match is never removed and its status never moves backwards along
\* waiting -> playing -> finished; a finished match stays finished.
C1_StatusForward ==
    [][\A i \in DOMAIN matches :
          /\ i \in DOMAIN matches'
          /\ Rank(matches'[i].status) >= Rank(matches[i].status)]_vars

\* a private match that waited, was joined and played, and then was finished
C1_Witness ==
    /\ matches # <<>>
    /\ matches[1].type = "private"
    /\ matches[1].status = "finished"
    /\ shots[1] = 1

\* C2: when a connection holding slot A or B of a waiting or playing match
\* disconnects, that match is finished when the handler completes.
C2_DisconnectFinishes ==
    [][\A s \in DOMAIN socketsMeta : \A i \in DOMAIN matches :
          (Disconnects(s) /\ Holds(s, i) /\ matches[i].status \in {"waiting", "playing"})
              => matches'[i].status = "finished"]_vars

\* C3: when a connection that only spectates a match disconnects, it leaves the
\* spectator set, the match's status, score, round, turn and pending actions are
\* unchanged and no match_over is emitted for the match.
C3_SpectatorLeaves ==
    [][\A s \in DOMAIN socketsMeta : \A i \in DOMAIN matches :
          (Disconnects(s) /\ s \in matches[i].spectators /\ ~Holds(s, i))
              => /\ s \notin matches'[i].spectators
                 /\ matches'[i].status = matches[i].status
                 /\ matches'[i].score = matches[i].score
                 /\ matches'[i].round = matches[i].round
                 /\ matches'[i].turn = matches[i].turn
                 /\ matches'[i].pending = matches[i].pending
                 /\ Emitted(out', "match_over", i) = {}]_vars

\* C4: when one of the two players of a playing match disconnects, match_over
\* is emitted for the match, every spectator is sent it, and it names the other
\* slot as winner with the match's score and reason opponent_disconnected.
C4_DisconnectWinner ==
    [][\A s \in DOMAIN socketsMeta : \A i \in DOMAIN matches :
          (/\ Disconnects(s) /\ Holds(s, i) /\ matches[i].status = "playing"
           /\ matches[i].players.A # matches[i].players.B)
              => /\ Emitted(out', "match_over", i) # {}
                 /\ \A msg \in Emitted(out', "match_over", i) :
                       /\ \E r \in Slots : matches[i].players[r] = s
                                           /\ msg.winner = other(r)
                       /\ msg.reason = "opponent_disconnected"
                       /\ msg.score = matches[i].score
                 /\ \A x \in matches[i].spectators :
                       \E msg \in Emitted(out', "match_over", i) : msg.to = x]_vars

\* the last handler resolved a shot of match i (shot_result goes out first)
JustShot(i) == out # <<>> /\ out[1].ev = "shot_result" /\ out[1].mid = i

\* C5: a resolved shot adds exactly 1 to the shooter's score iff its result is
\* goal and leaves the other slot's score alone; no other step changes a score.
C5_ScoreOnlyOnGoal ==
    [][\A i \in DOMAIN matches :
          IF shots'[i] = shots[i] + 1
          THEN LET shooter == matches[i].turn
                   result == out'[1].result
               IN  /\ out'[1].ev = "shot_result"
                   /\ result \in {"goal", "save", "miss"}
                   /\ matches'[i].score[shooter] =
                         matches[i].score[shooter] + (IF result = "goal" THEN 1 ELSE 0)
                   /\ matches'[i].score[other(shooter)] = matches[i].score[other(shooter)]
          ELSE /\ shots'[i] = shots[i]
               /\ matches'[i].score = matches[i].score]_vars

\* slot B has just scored a goal and slot A had scored before
C5_Witness ==
    \E i \in DOMAIN matches :
        /\ JustShot(i)
        /\ out[1].result = "goal"
        /\ matches[i].turn = "A"
        /\ matches[i].score = [A |-> 1, B |-> 1]

\* C6: after n resolved shots of a match, turn is A iff n is even, round is
\* 1 + n \div 2, and the code's totalShots expression equals n.
C6_TurnRoundShots ==
    \A i \in DOMAIN matches :
        /\ (matches[i].turn = "A") <=> (shots[i] % 2 = 0)
        /\ matches[i].round = 1 + (shots[i] \div 2)
        /\ TotalShots(matches[i]) = shots[i]

\* three shots resolved: slot B kicks next, in round 2
C6_Witness ==
    \E i \in DOMAIN matches :
        shots[i] = 3 /\ matches[i].turn = "B" /\ matches[i].round = 2

\* C7: a join_queue appends the sender and pairs the queue two by two from its
\* head: the k-th pair makes one new public match, started, with the older
\* entry in slot A and the next in slot B; what is left over stays queued.
C7_FifoPairing ==
    [][last'.op = "join_queue" =>
          LET q == Append(queue, last'.sock)
              n == Len(q) \div 2
          IN  /\ Len(matches') = Len(matches) + n
              /\ \A i \in DOMAIN matches : matches'[i] = matches[i]
              /\ \A k \in 1..n :
                    LET m == matches'[Len(matches) + k]
                    IN  /\ m.type = "public"
                        /\ m.status = "playing"
                        /\ m.players.A = q[2 * k - 1]
                        /\ m.players.B = q[2 * k]
              /\ queue' = SubSeq(q, 2 * n + 1, Len(q))]_vars

\* c1, c2, c3, c4 queued in this order and nobody left
C7_Witness ==
    /\ Len(matches) = 2
    /\ matches[1].players = [A |-> "c1", B |-> "c2"]
    /\ matches[2].players = [A |-> "c3", B |-> "c4"]
    /\ \A i \in {1, 2} : matches[i].status = "playing" /\ matches[i].type = "public"
    /\ DOMAIN socketsMeta = Sockets
    /\ queue = <<>>

\* the messages of o that tell socket `to` it kicks as slot A in round r of match i
KickerTurn(o, i, to, r) ==
    {msg \in Emitted(o, "your_turn", i) :
        msg.to = to /\ msg.role = "kicker" /\ msg.youAre = "A" /\ msg.round = r}

\* the winner every match_over of match i among o must name
OverNames(o, i, w) ==
    /\ Emitted(o, "match_over", i) # {}
    /\ \A msg \in Emitted(o, "match_over", i) :
          msg.winner = w /\ msg.score = matches[i].score

Leader(m) == IF m.score.A > m.score.B THEN "A" ELSE "B"

\* C8: when the shot that has just been resolved is the (maxRounds * 2)-th of
\* its match: with unequal scores the match is finished and match_over names
\* the higher scorer; with equal scores the match is playing, in round
\* maxRounds + 1, and slot A is told to kick.
C8_RegulationEnd ==
    \A i \in DOMAIN matches :
        (JustShot(i) /\ shots[i] = matches[i].maxRounds * 2) =>
            LET m == matches[i]
            IN  IF m.score.A # m.score.B
                THEN /\ m.status = "finished"
                     /\ OverNames(out, i, Leader(m))
                ELSE /\ m.status = "playing"
                     /\ m.round = m.maxRounds + 1
                     /\ m.turn = "A"
                     /\ KickerTurn(out, i, m.players.A, m.round) # {}
                     /\ Emitted(out, "match_over", i) = {}

\* the tenth shot leaves the scores level at 2-2
C8_Witness ==
    \E i \in DOMAIN matches :
        /\ JustShot(i)
        /\ shots[i] = matches[i].maxRounds * 2
        /\ matches[i].score = [A |-> 2, B |-> 2]
        /\ matches[i].status = "playing"

\* C9: when slot B's shot of a round beyond maxRounds has just been resolved:
\* with unequal scores the match is finished; with equal scores it is playing,
\* in the next round, and slot A is told to kick.
C9_SuddenDeathEnd ==
    \A i \in DOMAIN matches :
        (JustShot(i) /\ out[1].round > matches[i].maxRounds /\ out[1].nextTurn = "A") =>
            LET m == matches[i]
            IN  IF m.score.A # m.score.B
                THEN /\ m.status = "finished"
                     /\ OverNames(out, i, Leader(m))
                ELSE /\ m.status = "playing"
                     /\ m.round = out[1].round + 1
                     /\ m.turn = "A"
                     /\ KickerTurn(out, i, m.players.A, m.round) # {}
                     /\ Emitted(out, "match_over", i) = {}

\* slot B's goal in round maxRounds + 1 decides the match
C9_Witness ==
    \E i \in DOMAIN matches :
        /\ JustShot(i)
        /\ out[1].round = matches[i].maxRounds + 1
        /\ out[1].nextTurn = "A"
        /\ out[1].result = "goal"
        /\ matches[i].status = "finished"

\* C10: a kick from a connection that is not players[turn] of a playing match
\* leaves that match's pending kick, score and turn unchanged, a dive from one
\* that is not players[other(turn)] leaves its pending dive, score and turn
\* unchanged, and neither emits error_msg.
C10_Authorization ==
    [][\A i \in DOMAIN matches :
          LET m == matches[i]
              n == matches'[i]
              quiet == \A k \in DOMAIN out' : out'[k].ev # "error_msg"
          IN  /\ (last'.op = "kick" /\ m.status = "playing"
                  /\ m.players[m.turn] # last'.sock)
                    => /\ n.pending.kick = m.pending.kick
                       /\ n.score = m.score
                       /\ n.turn = m.turn
                       /\ quiet
              /\ (last'.op = "dive" /\ m.status = "playing"
                  /\ m.players[other(m.turn)] # last'.sock)
                    => /\ n.pending.dive = m.pending.dive
                       /\ n.score = m.score
                       /\ n.turn = m.turn
                       /\ quiet]_vars

\* the keeper of a playing match has just sent a kick while a dive is pending
C10_Witness ==
    \E i \in DOMAIN matches :
        /\ last.op = "kick"
        /\ matches[i].status = "playing"
        /\ matches[i].players.A # matches[i].players.B
        /\ matches[i].players[other(matches[i].turn)] = last.sock
        /\ socketsMeta[last.sock].matchId = i
        /\ matches[i].pending.dive # Null
        /\ matches[i].pending.kick = Null

\* the messages of event ev sent to socket s among the messages o
SentTo(o, ev, s) == {o[k] : k \in {j \in DOMAIN o : o[j].ev = ev /\ o[j].to = s}}

\* C11: a join_by_code whose code is that of no waiting private match, or is
\* the code of a match whose slot B is filled, sends error_msg to the sender
\* and changes no match and no connection metadata.
C11_BadCodeRejected ==
    [][\A s \in LobbySockets : \A code \in Codes \cup {"ZZ"} :
          (/\ JoinByCode(s, code)
           /\ \/ ~\E i \in DOMAIN matches :
                    /\ matches[i].type = "private"
                    /\ matches[i].code = code
                    /\ matches[i].status = "waiting"
              \/ \E i \in DOMAIN matches :
                    matches[i].code = code /\ matches[i].players.B # NoSock)
              => /\ SentTo(out', "error_msg", s) # {}
                 /\ matches' = matches
                 /\ socketsMeta' = socketsMeta]_vars


\* the number of filled player slots of match m
Filled(m) == Cardinality({x \in Slots : m.players[x] # NoSock})

\* the messages o hold, in this order and next to each other, the start of
\* match i: match_start to both players, then the first turn with A kicking
StartsIn(o, i) ==
    \E k \in 1..(Len(o) - 3) :
        /\ o[k].ev = "match_start" /\ o[k].mid = i
        /\ o[k].to = matches'[i].players.A /\ o[k].youAre = "A"
        /\ o[k + 1].ev = "match_start" /\ o[k + 1].mid = i
        /\ o[k + 1].to = matches'[i].players.B /\ o[k + 1].youAre = "B"
        /\ o[k + 2].ev = "your_turn" /\ o[k + 2].mid = i
        /\ o[k + 2].to = matches'[i].players.A /\ o[k + 2].role = "kicker"
        /\ o[k + 2].youAre = "A" /\ o[k + 2].round = 1
        /\ o[k + 3].ev = "your_turn" /\ o[k + 3].mid = i
        /\ o[k + 3].to = matches'[i].players.B /\ o[k + 3].role = "keeper"

\* C12: after every handler a playing match has both slots filled and a
\* waiting match at most one; the step that fills a match's second slot (queue
\* pairing or join_by_code) makes it playing and sends match_start to both
\* players followed by the first turn, A kicking at round 1.
C12_StartWhenFull ==
    /\ [](\A i \in DOMAIN matches :
            /\ matches[i].status = "playing" => Filled(matches[i]) = 2
            /\ matches[i].status = "waiting" => Filled(matches[i]) <= 1)
    /\ [][\A i \in DOMAIN matches' :
            (/\ Filled(matches'[i]) = 2
             /\ i \in DOMAIN matches => Filled(matches[i]) < 2)
                => /\ matches'[i].status = "playing"
                   /\ i \in DOMAIN matches => matches[i].status = "waiting"
                   /\ matches'[i].turn = "A" /\ matches'[i].round = 1
                   /\ StartsIn(out', i)]_vars

C12_Witness ==
    /\ last.op = "join_by_code"
    /\ \E i \in DOMAIN matches :
          /\ matches[i].type = "private"
          /\ matches[i].status = "playing"
          /\ matches[i].players.B = last.sock
          /\ shots[i] = 0
          /\ Len(out) >= 4 /\ out[1].ev = "match_start" /\ out[1].mid = i
          /\ out[3].ev = "your_turn" /\ out[3].to = matches[i].players.A

\* C13: no two distinct waiting private matches carry the same invite code;
\* public matches have a null code and private matches a non-null one.
C13_CodesUnique ==
    /\ \A i, j \in DOMAIN matches :
          (/\ i # j
           /\ matches[i].type = "private" /\ matches[i].status = "waiting"
           /\ matches[j].type = "private" /\ matches[j].status = "waiting")
              => matches[i].code # matches[j].code
    /\ \A i \in DOMAIN matches :
          matches[i].type = "public" <=> matches[i].code = "null"

\* socket s is in the queue
Queued(s) == \E k \in DOMAIN queue : queue[k] = s

\* socket s holds a slot of a match that is waiting or playing
Matched(s) == \E i \in DOMAIN matches : Holds(s, i) /\ matches[i].status # "finished"

\* C14: a join_queue from a connection that holds a slot of a waiting or
\* playing match, or that is already in the queue, neither enqueues it nor
\* pairs it into a new match.
C14_JoinQueueOnlyUnmatched ==
    [][\A s \in Sockets :
          (JoinQueue(s) /\ (Matched(s) \/ Queued(s)))
              => queue' = queue /\ matches' = matches]_vars

\* C15: a step taken while match i is finished leaves its status, players,
\* score, round, turn and spectators unchanged and emits no your_turn,
\* shot_result or match_over for it; a spectate_join on it gets error_msg.
C15_FinishedFrozen ==
    [][\A i \in DOMAIN matches :
          matches[i].status = "finished"
              => /\ matches'[i].status = "finished"
                 /\ matches'[i].players = matches[i].players
                 /\ matches'[i].score = matches[i].score
                 /\ matches'[i].round = matches[i].round
                 /\ matches'[i].turn = matches[i].turn
                 /\ matches'[i].spectators = matches[i].spectators
                 /\ Emitted(out', "your_turn", i) = {}
                 /\ Emitted(out', "shot_result", i) = {}
                 /\ Emitted(out', "match_over", i) = {}
                 /\ \A s \in Sockets :
                       SpectateJoin(s, i) => SentTo(out', "error_msg", s) # {}]_vars

\* a kick by a player of a finished match, still bound to it, was ignored
C15_Witness ==
    /\ last.op = "kick"
    /\ out = <<>>
    /\ last.sock \in DOMAIN socketsMeta
    /\ \E i \in DOMAIN matches :
          /\ socketsMeta[last.sock].matchId = i
          /\ matches[i].status = "finished"
          /\ matches[i].players[matches[i].turn] = last.sock

\* C16: a shot by slot A in sudden death (round > maxRounds) never finishes
\* the match: after it the match is playing and it is B's turn in that round.
C16_SuddenDeathPair ==
    \A i \in DOMAIN matches :
        (/\ JustShot(i)
         /\ matches[i].players.A # matches[i].players.B
         /\ out[1].round > maxRounds
         /\ out[1].nextTurn = "B")
            => /\ matches[i].status = "playing"
               /\ matches[i].turn = "B"
               /\ matches[i].round = out[1].round
               /\ Emitted(out, "match_over", i) = {}

\* C17: when a shot resolution finishes a match (finishMatch), at least
\* maxRounds * 2 shots have been resolved in it, its scores are unequal and
\* match_over names the slot with the strictly higher score; no match_over
\* ever carries the winner "draw".
C17_FinishByShots ==
    /\ \A i \in DOMAIN matches :
          (JustShot(i) /\ Emitted(out, "match_over", i) # {})
              => /\ matches[i].status = "finished"
                 /\ shots[i] >= maxRounds * 2
                 /\ matches[i].score.A # matches[i].score.B
                 /\ \A msg \in Emitted(out, "match_over", i) :
                       /\ msg.winner \in Slots
                       /\ msg.score = matches[i].score
                       /\ msg.score[msg.winner] > msg.score[other(msg.winner)]
    /\ \A k \in DOMAIN out : out[k].winner # "draw"

\* the tenth shot has just decided a match in favour of slot B
C17_Witness ==
    \E i \in DOMAIN matches :
        /\ JustShot(i)
        /\ shots[i] = maxRounds * 2
        /\ matches[i].status = "finished"
        /\ matches[i].score.B > matches[i].score.A
        /\ \E msg \in Emitted(out, "match_over", i) : msg.winner = "B"

\* match m holds a pending kick or a pending dive
HasPending(m) == m.pending.kick # Null \/ m.pending.dive # Null

\* C18, as stated: in every reachable state a match holding a pending kick
\* or a pending dive has status playing (a disconnect that finishes the match
\* clears them).
C18_PendingImpliesPlaying ==
    \A i \in DOMAIN matches : HasPending(matches[i]) => matches[i].status = "playing"

\* C18, amended: a pending kick or dive is recorded only by a step taken while
\* the match is playing, so a waiting match holds none; a disconnect that
\* finishes a match leaves its pending actions stored, and in a finished match
\* they never change and are never resolved: no shot_result, no score change.
C18_PendingNeverResolvedAfterFinish ==
    /\ [](\A i \in DOMAIN matches :
            matches[i].status = "waiting" => ~HasPending(matches[i]))
    /\ [][\A i \in DOMAIN matches :
            /\ (matches'[i].pending # matches[i].pending /\ HasPending(matches'[i]))
                  => matches[i].status = "playing"
            /\ (matches[i].status # "finished" /\ last'.op = "disconnect")
                  => matches'[i].pending = matches[i].pending
            /\ matches[i].status = "finished"
                  => /\ matches'[i].pending = matches[i].pending
                     /\ matches'[i].score = matches[i].score
                     /\ Emitted(out', "shot_result", i) = {}]_vars

\* the keeper's dive arrives after a disconnect finished the match with the
\* kick pending: it is ignored and the kick stays stored
C18_Witness ==
    /\ last.op = "dive"
    /\ out = <<>>
    /\ last.sock \in DOMAIN socketsMeta
    /\ \E i \in DOMAIN matches :
          /\ socketsMeta[last.sock].matchId = i
          /\ matches[i].status = "finished"
          /\ matches[i].pending.kick # Null
          /\ matches[i].pending.dive = Null
          /\ matches[i].players[other(matches[i].turn)] = last.sock

\* the step is the handler of event op sent by socket s, bound to match i
Handles(op, s, i) ==
    /\ last'.op = op /\ last'.sock = s
    /\ s \in DOMAIN socketsMeta /\ socketsMeta[s].matchId = i

\* C19: after every handler no match holds both a pending kick and a pending
\* dive; the kick or dive that supplies the second of the two resolves exactly
\* one shot and leaves both empty; a pending kick is written only by a kick of
\* the current kicker and a pending dive only by a dive of the current keeper,
\* and none survives a change of turn or round.
C19_AtomicResolution ==
    /\ [](\A i \in DOMAIN matches :
            matches[i].pending.kick = Null \/ matches[i].pending.dive = Null)
    /\ [][\A i \in DOMAIN matches :
            LET m == matches[i]
                n == matches'[i]
                kicker == m.players[m.turn]
                keeper == m.players[other(m.turn)]
            IN  /\ (/\ m.status = "playing"
                     /\ \/ m.pending.kick # Null /\ Handles("dive", keeper, i)
                        \/ m.pending.dive # Null /\ Handles("kick", kicker, i))
                        => /\ shots'[i] = shots[i] + 1
                           /\ n.pending.kick = Null /\ n.pending.dive = Null
                           /\ Cardinality(SentTo(out', "shot_result", m.players.A)) = 1
                /\ (n.pending.kick # m.pending.kick /\ n.pending.kick # Null)
                        => /\ Handles("kick", kicker, i)
                           /\ n.turn = m.turn /\ n.round = m.round
                /\ (n.pending.dive # m.pending.dive /\ n.pending.dive # Null)
                        => /\ Handles("dive", keeper, i)
                           /\ n.turn = m.turn /\ n.round = m.round
                /\ (n.turn # m.turn \/ n.round # m.round)
                        => n.pending.kick = Null /\ n.pending.dive = Null]_vars

\* a dive by the keeper has just met the pending kick: one shot resolved,
\* nothing pending
C19_Witness ==
    /\ last.op = "dive"
    /\ \E i \in DOMAIN matches :
          /\ JustShot(i)
          /\ shots[i] = 1
          /\ matches[i].players.A # matches[i].players.B
          /\ matches[i].players.B = last.sock
          /\ matches[i].status = "playing"
          /\ matches[i].pending.kick = Null
          /\ matches[i].pending.dive = Null

\* the positions of the messages of event ev about match i among o
At(o, ev, i) == {k \in DOMAIN o : o[k].ev = ev /\ o[k].mid = i}

\* C20: a step that resolves a shot of match i emits shot_result first and
\* after it exactly one of match_over (when the ending test is met) and the
\* next your_turn; match_over is emitted for a match only by the step that
\* finishes it, and a finished match stays finished and has no your_turn,
\* shot_result or match_over emitted for it again.
C20_EventOrder ==
    [][\A i \in DOMAIN matches :
          /\ shots'[i] # shots[i]
                => /\ shots'[i] = shots[i] + 1
                   /\ At(out', "shot_result", i) # {}
                   /\ 1 \in At(out', "shot_result", i)
                   /\ (At(out', "match_over", i) # {}) # (At(out', "your_turn", i) # {})
                   /\ (At(out', "match_over", i) # {}) <=> ShootoutOver(matches'[i])
                   /\ \A a \in At(out', "shot_result", i) :
                         \A b \in At(out', "match_over", i) \cup At(out', "your_turn", i) :
                             a < b
          /\ At(out', "match_over", i) # {}
                => /\ matches[i].status # "finished"
                   /\ matches'[i].status = "finished"
                   /\ At(out', "your_turn", i) = {}
          /\ matches[i].status = "finished"
                => /\ matches'[i].status = "finished"
                   /\ At(out', "match_over", i) = {}
                   /\ At(out', "your_turn", i) = {}
                   /\ At(out', "shot_result", i) = {}]_vars

\* a shot watched by a spectator has just finished its match: shot_result,
\* then match_over, and no your_turn
C20_Witness ==
    \E i \in DOMAIN matches :
        /\ JustShot(i)
        /\ matches[i].status = "finished"
        /\ matches[i].spectators # {}
        /\ At(out, "match_over", i) # {}
        /\ At(out, "your_turn", i) = {}
        /\ \A a \in At(out, "shot_result", i) : \A b \in At(out, "match_over", i) : a < b

\* C21: when the only player of a waiting private match (slot A filled, slot
\* B empty), still bound to it, disconnects, the match becomes finished and
\* no match_over emitted for it names as winner a slot that holds no
\* connection.
C21_NoEmptyWinner ==
    [][\A s \in DOMAIN socketsMeta : \A i \in DOMAIN matches :
          (/\ Disconnects(s)
           /\ socketsMeta[s].matchId = i
           /\ matches[i].type = "private"
           /\ matches[i].status = "waiting"
           /\ matches[i].players.A = s
           /\ matches[i].players.B = NoSock)
              => /\ matches'[i].status = "finished"
                 /\ \A msg \in Emitted(out', "match_over", i) :
                       msg.winner \in Slots
                           => matches[i].players[msg.winner] # NoSock]_vars

\* C22: in every playing match slots A and B hold two distinct connections,
\* so the kicker and the keeper of a turn are never the same connection.
C22_DistinctPlayers ==
    \A i \in DOMAIN matches :
        matches[i].status = "playing"
            => /\ matches[i].players.A # matches[i].players.B
               /\ matches[i].players[matches[i].turn]
                     # matches[i].players[other(matches[i].turn)]

====
